---------------------------- MODULE Spec2Model ----------------------------
(***************************************************************************)
(* A model of libteam's protocol core (lib/libteam.c): the team_handle     *)
(* context, the port and option snapshots, the change-handler dispatcher,  *)
(* the request loop send_and_recv and the event path.                      *)
(*                                                                         *)
(* The library is single threaded.  One API call runs at a time; pc holds  *)
(* the position of the call in progress.  The kernel is the environment:   *)
(* it puts one netlink message at a time in rx and the library consumes it *)
(* in the next step.                                                       *)
(***************************************************************************)
EXTENDS Integers, Sequences, FiniteSets, TLC

(***************************************************************************)
(* Bounds of the model.                                                    *)
(***************************************************************************)
\* items in one TEAM_ATTR_LIST_PORT / TEAM_ATTR_LIST_OPTION attribute
MaxItems == 2
\* magnitude of the libnl error codes tried on nl2syserr
MaxNlErr == 60
\* handlers registered when a dispatch is examined on its own
MaxRegistered == 3
\* datagrams queued on the event socket when team_check_events is called
MaxQueued == 2

(***************************************************************************)
(* errno values (errno.h) and libnl error codes (netlink/errno.h) used by  *)
(* nl2syserr and by the early returns of the library.                      *)
(***************************************************************************)
EPERM == 1
ENOENT == 2
EINTR == 4
EAGAIN == 11
ENOMEM == 12
EACCES == 13
EBUSY == 16
EEXIST == 17
ENODEV == 19
EINVAL == 22
ERANGE == 34
ENOTSOCK == 88
EPROTONOSUPPORT == 93
EOPNOTSUPP == 95
EAFNOSUPPORT == 97
EADDRNOTAVAIL == 99
ENOBUFS == 105

NLE_INTR == 2
NLE_BAD_SOCK == 3
NLE_AGAIN == 4
NLE_NOMEM == 5
NLE_EXIST == 6
NLE_INVAL == 7
NLE_RANGE == 8
NLE_OPNOTSUPP == 10
NLE_AF_NOSUPPORT == 11
NLE_OBJ_NOTFOUND == 12
NLE_NOADDR == 19
NLE_BUSY == 25
NLE_PROTO_MISMATCH == 26
NLE_NOACCESS == 27
NLE_PERM == 28
NLE_NODEV == 31

\* the range of a C int
IntMax == 2147483647
IntMin == (-IntMax) - 1

(***************************************************************************)
(* nl2syserr.  abs(INT_MIN) is undefined in C; the negation wraps to       *)
(* INT_MIN on the two's-complement builds of the library, which is the     *)
(* only value such a build produces.                                       *)
(***************************************************************************)
\* a variant of abs that keeps the sign
abs_no_sign(x) == x

abs(x) == IF x = IntMin THEN IntMin ELSE IF x < 0 THEN -x ELSE x

nl2syserr(nl_err) ==
  LET a == abs(nl_err) IN
  CASE a = 0 -> 0
    [] a = NLE_EXIST -> EEXIST
    [] a = NLE_NOADDR -> EADDRNOTAVAIL
    [] a = NLE_OBJ_NOTFOUND -> ENOENT
    [] a = NLE_INTR -> EINTR
    [] a = NLE_AGAIN -> EAGAIN
    [] a = NLE_BAD_SOCK -> ENOTSOCK
    [] a = NLE_NOACCESS -> EACCES
    [] a = NLE_INVAL -> EINVAL
    [] a = NLE_NOMEM -> ENOMEM
    [] a = NLE_AF_NOSUPPORT -> EAFNOSUPPORT
    [] a = NLE_PROTO_MISMATCH -> EPROTONOSUPPORT
    [] a = NLE_OPNOTSUPP -> EOPNOTSUPP
    [] a = NLE_PERM -> EPERM
    [] a = NLE_BUSY -> EBUSY
    [] a = NLE_RANGE -> ERANGE
    [] a = NLE_NODEV -> ENODEV
    [] OTHER -> EINVAL

(***************************************************************************)
(* Change categories.  A team_change_type_mask_t is modelled as the set of *)
(* its bits: & is \cap, | is \cup, & ~m is \ m.                            *)
(***************************************************************************)
TEAM_PORT_CHANGE == {"PORT"}
TEAM_OPTION_CHANGE == {"OPTION"}
TEAM_ANY_CHANGE == TEAM_PORT_CHANGE \cup TEAM_OPTION_CHANGE

\* the registered struct team_change_handler objects and their type_mask
AllHandlers == {"hP", "hO", "hPO", "hNone"}
type_mask(h) ==
  CASE h = "hP" -> TEAM_PORT_CHANGE
    [] h = "hO" -> TEAM_OPTION_CHANGE
    [] h = "hPO" -> TEAM_ANY_CHANGE
    [] OTHER -> {}
\* the handlers the protocol model registers
Handlers == {"hP", "hO"}

(***************************************************************************)
(* list.h                                                                  *)
(***************************************************************************)
list_add(head, node) == Append(head, node)
list_move_nodes(dst, src) == dst \o src


(***************************************************************************)
(* Wire data.  An item of a nested list attribute is the result of         *)
(* nla_parse_nested on it: parsed says whether the parse succeeded, has_x  *)
(* whether attribute x is present.                                         *)
(***************************************************************************)
SeqsUpTo(S, n) == UNION {[1..k -> S] : k \in 0..n}

PortItemA ==
  [parsed |-> TRUE, has_ifindex |-> TRUE, ifindex |-> 11, changed |-> TRUE,
   linkup |-> TRUE, has_speed |-> TRUE, speed |-> 1000,
   has_duplex |-> TRUE, duplex |-> 1]
PortItemB ==
  [parsed |-> TRUE, has_ifindex |-> TRUE, ifindex |-> 12, changed |-> FALSE,
   linkup |-> FALSE, has_speed |-> FALSE, speed |-> 0,
   has_duplex |-> FALSE, duplex |-> 0]
PortItemNoIfindex ==
  [parsed |-> TRUE, has_ifindex |-> FALSE, ifindex |-> 0, changed |-> FALSE,
   linkup |-> TRUE, has_speed |-> TRUE, speed |-> 100,
   has_duplex |-> FALSE, duplex |-> 0]
PortItemGarbled ==
  [parsed |-> FALSE, has_ifindex |-> FALSE, ifindex |-> 0, changed |-> FALSE,
   linkup |-> FALSE, has_speed |-> FALSE, speed |-> 0,
   has_duplex |-> FALSE, duplex |-> 0]
PortItems == {PortItemA, PortItemB, PortItemNoIfindex, PortItemGarbled}

OptItem(name, nla_type, data, changed) ==
  [parsed |-> TRUE, has_name |-> TRUE, name |-> name, has_type |-> TRUE,
   nla_type |-> nla_type, has_data |-> TRUE, data |-> data,
   changed |-> changed]
\* the payload of a TEAM_ATTR_OPTION_DATA attribute, as nla_get_u32 and as
\* nla_get_string read it (four bytes, little endian)
Data(u32, str) == [u32 |-> u32, str |-> str]
OptItemA42 == OptItem("a", "NLA_U32", Data(42, "*"), FALSE)
OptItemAStr == OptItem("a", "NLA_STRING", Data(8026488, "xyz"), FALSE)
OptItemAUnknown == OptItem("a", "NLA_U8", Data(1, "\\1"), FALSE)
OptItemB == OptItem("b", "NLA_U32", Data(7, "\\a"), TRUE)
OptItemNoData ==
  [OptItem("b", "NLA_U32", Data(0, ""), FALSE) EXCEPT !.has_data = FALSE]
OptItemGarbled ==
  [OptItem("", "NLA_U32", Data(0, ""), FALSE) EXCEPT !.parsed = FALSE]
OptItems ==
  {OptItemA42, OptItemAStr, OptItemAUnknown, OptItemB, OptItemNoData,
   OptItemGarbled}
OptNames == {"a", "b", "c"}

\* interface indexes a context may be initialised with; 0 is "no device"
DevIndices == {1, 2}

(***************************************************************************)
(* Netlink messages.  kind: "ack" (NLMSG_ERROR with error 0), "error"      *)
(* (NLMSG_ERROR with a negative errno), "done" (NLMSG_DONE), "valid" (a    *)
(* generic netlink message of the team family) and "none" (nothing in      *)
(* flight).                                                                *)
(***************************************************************************)
Msg(kind, error, cmd, has_if, team_if, has_ports, ports, has_opts, opts) ==
  [kind |-> kind, error |-> error, cmd |-> cmd,
   has_ifindex |-> has_if, team_ifindex |-> team_if,
   has_ports |-> has_ports, ports |-> ports,
   has_options |-> has_opts, options |-> opts]
Control(kind, error) ==
  Msg(kind, error, "none", FALSE, 0, FALSE, <<>>, FALSE, <<>>)
NoMsg == Control("none", 0)
AckMsg == Control("ack", 0)
DoneMsg == Control("done", 0)
KernelErrors == {-EPERM}
ErrorMsgs == {Control("error", e) : e \in KernelErrors}
ControlMsgs == {AckMsg, DoneMsg} \cup ErrorMsgs

PortMsg(has_if, team_if, has_ports, ports) ==
  Msg("valid", 0, "TEAM_CMD_PORT_LIST_GET", has_if, team_if,
      has_ports, ports, FALSE, <<>>)
OptionMsg(has_if, team_if, has_opts, opts) ==
  Msg("valid", 0, "TEAM_CMD_OPTIONS_GET", has_if, team_if,
      FALSE, <<>>, has_opts, opts)

\* every item list for device 1; a short list for the other devices and for
\* a message without TEAM_ATTR_TEAM_IFINDEX
PortMsgs ==
  {PortMsg(TRUE, 1, TRUE, l) : l \in SeqsUpTo(PortItems, MaxItems)}
    \cup {PortMsg(TRUE, 1, FALSE, <<>>)}
    \cup {PortMsg(TRUE, 2, TRUE, <<PortItemA>>),
          PortMsg(FALSE, 0, TRUE, <<PortItemB>>)}
OptionMsgs ==
  {OptionMsg(TRUE, 1, TRUE, l) : l \in SeqsUpTo(OptItems, MaxItems)}
    \cup {OptionMsg(TRUE, 1, FALSE, <<>>)}
    \cup {OptionMsg(TRUE, 2, TRUE, <<OptItemA42>>),
          OptionMsg(FALSE, 0, TRUE, <<OptItemB>>)}
\* messages of the team family with another command
OtherCmdMsgs ==
  {Msg("valid", 0, "TEAM_CMD_OPTIONS_SET", TRUE, 1, FALSE, <<>>,
       TRUE, <<OptItemB>>),
   Msg("valid", 0, "TEAM_CMD_NOOP", TRUE, 1, TRUE, <<PortItemB>>,
       FALSE, <<>>)}
\* a few messages of each command, for the runs in which both arrive
MixedMsgs ==
  {PortMsg(TRUE, 1, TRUE, <<PortItemA, PortItemB>>),
   PortMsg(TRUE, 1, TRUE, <<PortItemB>>),
   PortMsg(TRUE, 2, TRUE, <<PortItemA>>),
   OptionMsg(TRUE, 1, TRUE, <<OptItemA42>>),
   OptionMsg(TRUE, 1, TRUE, <<OptItemB, OptItemAStr>>)}
    \cup OtherCmdMsgs

\* what the team driver at the other end sends during one run
Wires == {"ports", "options", "mixed"}
ValidMsgs(w) ==
  CASE w = "ports" -> PortMsgs
    [] w = "options" -> OptionMsgs
    [] OTHER -> MixedMsgs

(***************************************************************************)
(* The context (struct team_handle) and the call in progress.              *)
(***************************************************************************)
VARIABLES
  ifindex,        \* th->ifindex
  port_list,      \* th->port_list, a sequence of struct team_port
  option_list,    \* th->option_list, a sequence of struct team_option
  pending,        \* th->change_handler.pending_type_mask
  handlers,       \* th->change_handler.list
  nl_sock_err,    \* th->nl_sock_err
  sock,           \* th->nl_sock and th->nl_sock_event: "closed", "connected"
                  \* (nl_sock connected, no callback installed) or "ready"
  valid_cb,       \* the NL_CB_VALID callback of th->nl_sock
  pc,             \* position of the call in progress
  req,            \* the request or receive the call is in
  rx,             \* the message in flight to the library
  in_dgram,       \* the receive in progress has more messages to handle
  calls,          \* change handler invocations of the call, in order
  ret,            \* return value of the call
  op,             \* the API function called last
  hres,           \* the return path the handler of the last message took
  last_set,       \* the request of the set call in progress, then of the
                  \* last one the kernel acknowledged
  shown,          \* the port payload the live port snapshot was decoded from
  wire,           \* the messages the kernel sends in this run
  nl_error,       \* argument of the nl2syserr call under test
  sys_err,        \* its result
  evq,            \* datagrams queued on th->nl_sock_event
  sel,            \* outcome of the last select of team_check_events
  harg,           \* handler argument of the register or unregister call
  reg_rank,       \* history: rank of each registered handler among the
                  \* registered ones by time of registration (0: not
                  \* registered, 1: the one registered first)
  answered,       \* history: the last control message of the reply to the
                  \* request in progress ("none", "ok" or "error")
  updated,        \* history: the categories whose snapshot the receive in
                  \* progress has replaced
  after_fail,     \* history: the call before this one returned an error
  spin,           \* history: parity of the receives of the request in
                  \* progress that failed
  devs,           \* the names of the links the kernel has
  cr_name,        \* team_name argument of the last team_create or
                  \* team_recreate ("NULL": none given)
  inited,         \* history: the ifindex of the team_init that returned 0
                  \* (0: none has)
  cr_log          \* history: the rtnl calls that call made, in order, each
                  \* a pair <<function, result>>

ctx == <<ifindex, port_list, option_list, pending, handlers, nl_sock_err,
         sock, valid_cb>>
call == <<pc, req, rx, in_dgram, calls, ret, op, hres, last_set, shown>>
errv == <<nl_error, sys_err>>
drain == <<evq, sel>>
hist == <<harg, reg_rank, answered, updated, after_fail, spin, inited>>
rtnl == <<devs, cr_name, cr_log>>
vars == <<ctx, call, wire, errv, drain, hist, rtnl>>


(***************************************************************************)
(* Change handlers.                                                        *)
(***************************************************************************)
\* a variant of set_call_change_handlers that sets every bit
set_call_change_handlers_any(pending_type_mask, set_type_mask) ==
  pending_type_mask \cup TEAM_ANY_CHANGE

set_call_change_handlers(pending_type_mask, set_type_mask) ==
  pending_type_mask \cup set_type_mask

\* variants of handler_calls: one that calls every handler, one that hands
\* each handler the whole mask being dispatched
handler_calls_all(list, to_call_type_mask) ==
  [i \in 1..Len(list) |-> <<list[i], type_mask(list[i]) \cap to_call_type_mask>>]

handler_calls_whole_mask(list, to_call_type_mask) ==
  LET hit == SelectSeq(list,
                       LAMBDA h : type_mask(h) \cap to_call_type_mask # {})
  IN [i \in 1..Len(hit) |-> <<hit[i], to_call_type_mask>>]

\* a variant of handler_calls that walks the list from its end
handler_calls_reversed(list, to_call_type_mask) ==
  LET hit == SelectSeq(list,
                       LAMBDA h : type_mask(h) \cap to_call_type_mask # {})
  IN [i \in 1..Len(hit) |->
        <<hit[Len(hit) + 1 - i],
          type_mask(hit[Len(hit) + 1 - i]) \cap to_call_type_mask>>]

\* the loop of check_call_change_handlers: the invocations it makes, in list
\* order, each a pair <<handler, item_type_mask>>
RECURSIVE handler_calls(_, _)
handler_calls(list, to_call_type_mask) ==
  IF list = <<>> THEN <<>>
  ELSE LET handler == Head(list)
           item_type_mask == type_mask(handler) \cap to_call_type_mask
       IN (IF item_type_mask # {} THEN <<<<handler, item_type_mask>>>>
           ELSE <<>>)
          \o handler_calls(Tail(list), to_call_type_mask)

\* a variant of clear_pending that clears every bit
clear_all(pending_type_mask, call_type_mask) == {}

clear_pending(pending_type_mask, call_type_mask) ==
  pending_type_mask \ call_type_mask

check_call_change_handlers(call_type_mask) ==
  /\ calls' = calls \o handler_calls(handlers, pending \cap call_type_mask)
  /\ pending' = clear_pending(pending, call_type_mask)

\* a variant of find_change_handler that finds nothing
find_change_handler_never(list, handler) == FALSE

find_change_handler(list, handler) ==
  \E i \in 1..Len(list) : list[i] = handler

list_del(list, node) == SelectSeq(list, LAMBDA n : n # node)

(***************************************************************************)
(* Ports.                                                                  *)
(***************************************************************************)
\* a variant of flush_port_list that leaves the first port on the list
flush_port_list_but_first(list) ==
  IF list = <<>> THEN <<>> ELSE <<Head(list)>>

\* a variant of flush_port_list that frees nothing
flush_port_list_keep(list) == list

flush_port_list(list) == <<>>

\* lines 375-389: the struct team_port built from one parsed item
new_port(item) ==
  [ifindex |-> item.ifindex,
   changed |-> item.changed,
   linkup |-> item.linkup,
   speed |-> IF item.has_speed THEN item.speed ELSE 0,
   duplex |-> IF item.has_duplex THEN item.duplex ELSE 0]

\* the nla_for_each_nested loop of get_port_list_handler from item i on;
\* fail_at is the item whose malloc fails (0: none does)
RECURSIVE port_loop(_, _, _, _)
port_loop(items, i, tmp_list, fail_at) ==
  IF i > Len(items) THEN [path |-> "swap", tmp_list |-> tmp_list]
  ELSE IF ~items[i].parsed THEN [path |-> "abort_parse", tmp_list |-> tmp_list]
  ELSE IF ~items[i].has_ifindex
    THEN [path |-> "abort_noattr", tmp_list |-> tmp_list]
  ELSE IF fail_at = i THEN [path |-> "abort_malloc", tmp_list |-> tmp_list]
  ELSE port_loop(items, i + 1, list_add(tmp_list, new_port(items[i])), fail_at)

\* a variant of the device filter that lets every message through
device_matches_any(msg, th_ifindex) == TRUE

\* the device filter of both handlers (lines 353-357, 596-600)
device_matches(msg, th_ifindex) ==
  (IF msg.has_ifindex THEN msg.team_ifindex ELSE 0) = th_ifindex

port_decode(msg, fail_at) ==
  IF ~device_matches(msg, ifindex)
    THEN [path |-> "skip_ifindex", tmp_list |-> <<>>]
  ELSE IF ~msg.has_ports THEN [path |-> "skip_nolist", tmp_list |-> <<>>]
  ELSE port_loop(msg.ports, 1, <<>>, fail_at)

\* a variant of port_install that installs whatever was built
port_install_always(list, r) ==
  list_move_nodes(flush_port_list(list), r.tmp_list)

\* what a run of the handler that took return path r does to the context
port_install(list, r) ==
  IF r.path = "swap" THEN list_move_nodes(flush_port_list(list), r.tmp_list)
  ELSE list

\* team_get_next_port: the port after port (0 is NULL: before the first,
\* after the last); ports are named by their position in the list
team_get_next_port(list, port) == IF port < Len(list) THEN port + 1 ELSE 0

\* the ports a caller iterating with team_get_next_port sees
RECURSIVE ports_from(_, _)
ports_from(list, port) ==
  LET next == team_get_next_port(list, port) IN
  IF next = 0 THEN <<>> ELSE <<list[next]>> \o ports_from(list, next)

\* history: the records a run of a handler that took return path r
\* allocated and, at its return, neither linked into the list of the
\* context nor freed: those on tmp_list, a local of the handler
lost_records(r) == IF r.path = "swap" THEN 0 ELSE Len(r.tmp_list)

get_port_list_handler(msg, fail_at) ==
  LET r == port_decode(msg, fail_at) IN
  /\ hres' = [handler |-> "port", path |-> r.path,
               same |-> r.path = "swap" /\ shown.set /\ shown.items = msg.ports,
               dups |-> FALSE,
               unknown |-> FALSE,
               lost |-> lost_records(r)]
  /\ port_list' = port_install(port_list, r)
  /\ pending' = IF r.path = "swap"
                THEN set_call_change_handlers(pending, TEAM_PORT_CHANGE)
                ELSE pending
  /\ shown' = IF r.path = "swap" THEN [set |-> TRUE, items |-> msg.ports]
              ELSE shown
  /\ UNCHANGED option_list

(***************************************************************************)
(* Options.                                                                *)
(***************************************************************************)
flush_option_list(list) == <<>>

\* a variant of known_nla_type that takes every type tag
known_nla_type_any(nla_type) == TRUE

\* a variant of __find_option that finds nothing
find_option_never(opt_head, name) == FALSE

find_option(opt_head, name) ==
  \E i \in 1..Len(opt_head) : opt_head[i].name = name

\* the option found by __find_option: the first one of that name
found_option(opt_head, name) ==
  opt_head[CHOOSE i \in 1..Len(opt_head) :
             /\ opt_head[i].name = name
             /\ \A j \in 1..(i - 1) : opt_head[j].name # name]

known_nla_type(nla_type) == nla_type \in {"NLA_U32", "NLA_STRING"}

\* a variant of create_option that does not copy the data
new_option_zero(item) ==
  [name |-> item.name,
   type |-> IF item.nla_type = "NLA_U32" THEN "TEAM_OPTION_TYPE_U32"
            ELSE "TEAM_OPTION_TYPE_STRING",
   data |-> Data(0, ""),
   changed |-> item.changed]

\* lines 638-657 and create_option: the struct team_option of one item
new_option(item) ==
  [name |-> item.name,
   type |-> IF item.nla_type = "NLA_U32" THEN "TEAM_OPTION_TYPE_U32"
            ELSE "TEAM_OPTION_TYPE_STRING",
   data |-> item.data,
   changed |-> item.changed]

\* the nla_for_each_nested loop of get_options_handler from item i on;
\* fail_at is the item for which create_option returns NULL (0: none).  The
\* NULL is passed to list_add unchecked, which writes through it.
RECURSIVE option_loop(_, _, _, _)
option_loop(items, i, tmp_list, fail_at) ==
  IF i > Len(items) THEN [path |-> "swap", tmp_list |-> tmp_list]
  ELSE IF ~items[i].parsed THEN [path |-> "abort_parse", tmp_list |-> tmp_list]
  ELSE IF ~items[i].has_name \/ ~items[i].has_type \/ ~items[i].has_data
    THEN [path |-> "abort_noattr", tmp_list |-> tmp_list]
  ELSE IF find_option(tmp_list, items[i].name)
    THEN option_loop(items, i + 1, tmp_list, fail_at)
  ELSE IF ~known_nla_type(items[i].nla_type)
    THEN option_loop(items, i + 1, tmp_list, fail_at)
  ELSE IF fail_at = i THEN [path |-> "null_deref", tmp_list |-> tmp_list]
  ELSE option_loop(items, i + 1,
                   list_add(tmp_list, new_option(items[i])), fail_at)

option_decode(msg, fail_at) ==
  IF ~device_matches(msg, ifindex)
    THEN [path |-> "skip_ifindex", tmp_list |-> <<>>]
  ELSE IF ~msg.has_options THEN [path |-> "skip_nolist", tmp_list |-> <<>>]
  ELSE option_loop(msg.options, 1, <<>>, fail_at)

option_install(list, r) ==
  IF r.path = "swap" THEN list_move_nodes(flush_option_list(list), r.tmp_list)
  ELSE list

\* several items of the payload carry one name
has_duplicates(items) ==
  \E i, j \in 1..Len(items) : i < j /\ items[i].name = items[j].name

\* an item of the payload took the default case of the switch
has_unknown_type(items) ==
  \E i \in 1..Len(items) : items[i].nla_type \notin {"NLA_U32", "NLA_STRING"}

get_options_handler(msg, fail_at) ==
  LET r == option_decode(msg, fail_at) IN
  /\ hres' = [handler |-> "option", path |-> r.path, same |-> FALSE,
               dups |-> r.path = "swap" /\ has_duplicates(msg.options),
               unknown |-> r.path = "swap" /\ has_unknown_type(msg.options),
               lost |-> lost_records(r)]
  /\ option_list' = option_install(option_list, r)
  /\ pending' = IF r.path = "swap"
                THEN set_call_change_handlers(pending, TEAM_OPTION_CHANGE)
                ELSE pending
  /\ UNCHANGED <<port_list, shown>>

\* team_get_option_value_by_name_u32: <<return value, *u32_ptr>>; the value
\* is the stored payload read as a __u32 whatever the option's type
team_get_option_value_by_name_u32(list, name) ==
  IF ~find_option(list, name) THEN [ret |-> -ENOENT, val |-> 0]
  ELSE [ret |-> 0, val |-> found_option(list, name).data.u32]

team_get_option_value_by_name_string(list, name) ==
  IF ~find_option(list, name) THEN [ret |-> -ENOENT, val |-> ""]
  ELSE [ret |-> 0, val |-> found_option(list, name).data.str]


(***************************************************************************)
(* The initial state: a context returned by team_alloc.                    *)
(***************************************************************************)
NoSet == [name |-> "", type |-> "none", data |-> Data(0, "")]
NoShown == [set |-> FALSE, items |-> <<>>]
Hres(handler, path) ==
  [handler |-> handler, path |-> path, same |-> FALSE, dups |-> FALSE,
   unknown |-> FALSE, lost |-> 0]
NoHres == Hres("none", "none")

Init ==
  /\ ifindex = 0
  /\ port_list = <<>>
  /\ option_list = <<>>
  /\ pending = {}
  /\ handlers = <<>>
  /\ nl_sock_err = 0
  /\ sock = "closed"
  /\ valid_cb = "none"
  /\ pc = "idle"
  /\ req = "none"
  /\ rx = NoMsg
  /\ in_dgram = FALSE
  /\ calls = <<>>
  /\ ret = 0
  /\ op = "none"
  /\ hres = NoHres
  /\ last_set = NoSet
  /\ shown = NoShown
  /\ wire \in Wires
  /\ nl_error = 0
  /\ sys_err = 0
  /\ evq = 0
  /\ sel = "none"
  /\ harg = "none"
  /\ reg_rank = [h \in AllHandlers |-> 0]
  /\ answered = "none"
  /\ updated = {}
  /\ after_fail = FALSE
  /\ spin = FALSE
  /\ inited = 0
  /\ devs = {}
  /\ cr_name = "NULL"
  /\ cr_log = <<>>

\* errors the libnl calls of the library return
LibnlErrors == {-NLE_NOMEM, -NLE_OBJ_NOTFOUND}

\* entry of an API call; handler is the struct team_change_handler passed
\* ("none" for the calls that take none)
enter_with(name, handler) ==
  /\ pc = "idle"
  /\ op' = name
  /\ calls' = <<>>
  /\ hres' = NoHres
  /\ harg' = handler
  /\ after_fail' = (ret < 0)
  /\ answered' = "none"
  /\ updated' = {}
  /\ spin' = FALSE
  /\ sel' = "none"
  /\ UNCHANGED inited

enter(name) == enter_with(name, "none")

(***************************************************************************)
(* team_change_handler_register, team_change_handler_unregister            *)
(***************************************************************************)
\* history: the ranks after a register call of handler that returned 0, and
\* after an unregister call of handler
rank_after_register(rank, handler) ==
  IF rank[handler] > 0 THEN rank
  ELSE [rank EXCEPT
          ![handler] = Cardinality({h \in AllHandlers : rank[h] > 0}) + 1]

rank_after_unregister(rank, handler) ==
  IF rank[handler] = 0 THEN rank
  ELSE [h \in AllHandlers |->
          IF h = handler THEN 0
          ELSE IF rank[h] > rank[handler] THEN rank[h] - 1
          ELSE rank[h]]

team_change_handler_register(handler) ==
  /\ enter_with("register", handler)
  /\ \/ /\ find_change_handler(handlers, handler)
        /\ ret' = -EEXIST
        /\ UNCHANGED handlers
     \/ /\ ~find_change_handler(handlers, handler)
        /\ ret' = -ENOMEM
        /\ UNCHANGED handlers
     \/ /\ ~find_change_handler(handlers, handler)
        /\ handlers' = list_add(handlers, handler)
        /\ ret' = 0
  /\ reg_rank' = IF ret' = 0 THEN rank_after_register(reg_rank, handler)
                 ELSE reg_rank
  /\ req' = "none"
  /\ UNCHANGED <<ifindex, port_list, option_list, pending, nl_sock_err, sock,
                 valid_cb, pc, rx, in_dgram, last_set, shown, wire, errv, rtnl,
                 evq>>

team_change_handler_unregister(handler) ==
  /\ enter_with("unregister", handler)
  /\ handlers' = IF find_change_handler(handlers, handler)
                 THEN list_del(handlers, handler) ELSE handlers
  /\ reg_rank' = rank_after_unregister(reg_rank, handler)
  /\ ret' = 0
  /\ req' = "none"
  /\ UNCHANGED <<ifindex, port_list, option_list, pending, nl_sock_err, sock,
                 valid_cb, pc, rx, in_dgram, last_set, shown, wire, errv, rtnl,
                 evq>>

(***************************************************************************)
(* send_and_recv up to its loop, with the message construction of its      *)
(* caller: the request fails before anything is sent, or the loop is       *)
(* entered with nl_sock_err = 1 and, for a request with a valid_handler,   *)
(* that handler installed as the NL_CB_VALID callback of the socket.       *)
(***************************************************************************)
request_fails(request, code) ==
  /\ ret' = code
  /\ pc' = "idle"
  /\ req' = request
  /\ UNCHANGED <<nl_sock_err, valid_cb>>

\* a variant of request_sent that leaves th->nl_sock_err as the request
\* before left it
request_sent_keeps_err(request, valid_handler) ==
  /\ sock # "closed"
  /\ nl_sock_err' = nl_sock_err
  /\ valid_cb' = IF valid_handler # "none" THEN valid_handler ELSE valid_cb
  /\ req' = request
  /\ pc' = "recv"
  /\ ret' = 0

request_sent(request, valid_handler) ==
  /\ sock # "closed"
  /\ nl_sock_err' = 1
  /\ valid_cb' = IF valid_handler # "none" THEN valid_handler ELSE valid_cb
  /\ req' = request
  /\ pc' = "recv"
  /\ ret' = 0

send_and_recv(request, valid_handler) ==
  \/ request_fails(request, -ENOMEM)
  \/ request_fails(request, -ENOBUFS)
  \/ \E e \in LibnlErrors : request_fails(request, -nl2syserr(e))
  \/ request_sent(request, valid_handler)

(***************************************************************************)
(* team_init up to the loop of get_port_list; get_options, the second      *)
(* request of team_init.  libnl refuses to connect a socket that is        *)
(* connected already (NLE_BAD_SOCK).                                       *)
(***************************************************************************)
team_init(i) ==
  /\ enter("init")
  /\ \/ /\ i = 0
        /\ ret' = -ENOENT
        /\ req' = "none"
        /\ UNCHANGED <<ifindex, sock, nl_sock_err, valid_cb, pc>>
     \/ /\ i # 0
        /\ ifindex' = i
        /\ \/ \* genl_connect(th->nl_sock) fails
              /\ IF sock = "closed"
                 THEN \E e \in LibnlErrors : ret' = -nl2syserr(e)
                 ELSE ret' = -nl2syserr(-NLE_BAD_SOCK)
              /\ req' = "none"
              /\ UNCHANGED <<sock, nl_sock_err, valid_cb, pc>>
           \/ \* a later connect, resolve or membership step fails
              /\ sock = "closed"
              /\ \E e \in LibnlErrors : ret' = -nl2syserr(e)
              /\ sock' = "connected"
              /\ req' = "none"
              /\ UNCHANGED <<nl_sock_err, valid_cb, pc>>
           \/ \* the callbacks are installed and get_port_list is called
              /\ sock = "closed"
              /\ sock' = "ready"
              /\ \/ request_fails("port", -ENOMEM)
                 \/ request_fails("port", -ENOBUFS)
                 \/ \E e \in LibnlErrors : request_fails("port", -nl2syserr(e))
                 \/ /\ nl_sock_err' = 1
                    /\ valid_cb' = "port"
                    /\ req' = "port"
                    /\ pc' = "recv"
                    /\ ret' = 0
  /\ UNCHANGED <<port_list, option_list, pending, handlers, rx, in_dgram,
                 last_set, shown, wire, errv, rtnl, evq, reg_rank>>

get_options ==
  /\ pc = "get_options"
  /\ send_and_recv("option", "option")
  /\ answered' = "none"
  /\ spin' = FALSE
  /\ UNCHANGED <<ifindex, port_list, option_list, pending, handlers, sock,
                 rx, in_dgram, calls, op, hres, last_set, shown,
                 wire, errv, rtnl, drain, harg, reg_rank, updated, after_fail, inited>>

(***************************************************************************)
(* set_option_value, called by team_set_option_value_by_name_u32 and       *)
(* team_set_option_value_by_name_string; it passes no valid_handler.       *)
(***************************************************************************)
SetRequests ==
  {[name |-> "a", type |-> "TEAM_OPTION_TYPE_U32", data |-> Data(42, "*")],
   [name |-> "a", type |-> "TEAM_OPTION_TYPE_STRING", data |-> Data(8026488, "xyz")]}

set_option_value(request) ==
  /\ enter("set")
  /\ send_and_recv("set", "none")
  /\ last_set' = IF pc' = "recv" THEN request ELSE NoSet
  /\ UNCHANGED <<ifindex, port_list, option_list, pending, handlers, sock,
                 rx, in_dgram, shown, wire, errv, rtnl, evq, reg_rank>>

(***************************************************************************)
(* The kernel sends the next message of the reply to the request in        *)
(* progress.                                                               *)
(***************************************************************************)
kernel_reply ==
  /\ pc = "recv"
  /\ rx.kind = "none"
  /\ rx' \in ControlMsgs \cup ValidMsgs(wire)
  /\ hres' = NoHres
  /\ UNCHANGED <<ctx, pc, req, in_dgram, calls, ret, op, last_set,
                 shown, wire, errv, rtnl, drain, hist>>

(***************************************************************************)
(* One message handled inside nl_recvmsgs_default(th->nl_sock), and the    *)
(* test of the loop of send_and_recv when the receive returns.             *)
(***************************************************************************)
\* the NL_CB_VALID callback
valid_message(msg, fail_at) ==
  CASE valid_cb = "port" -> get_port_list_handler(msg, fail_at)
    [] valid_cb = "option" -> get_options_handler(msg, fail_at)
    [] OTHER -> /\ hres' = NoHres
                /\ UNCHANGED <<port_list, option_list, pending, shown>>

\* a variant of control_message in which error_handler stores 0
control_message_no_error(msg) ==
  IF sock # "ready" \/ msg.kind = "none" THEN nl_sock_err ELSE 0

\* ack_handler, finish_handler, error_handler; installed by team_init
control_message(msg) ==
  IF sock # "ready" THEN nl_sock_err
  ELSE CASE msg.kind = "ack" -> 0
         [] msg.kind = "done" -> 0
         [] msg.kind = "error" -> msg.error
         [] OTHER -> nl_sock_err

\* NL_STOP ends the receive; after NL_SKIP the next message of the datagram,
\* if there is one, is handled
receive_goes_on(msg, more) == more /\ ~(msg.kind = "ack" /\ sock = "ready")

\* the return of send_and_recv and what its caller does with err
request_returns(err) ==
  IF req \in {"port", "option"} /\ err = 0
  THEN /\ pc' = "settle"
       /\ UNCHANGED <<ret, last_set>>
  ELSE /\ pc' = "idle"
       /\ ret' = err
       /\ last_set' = IF req = "set" /\ err # 0 THEN NoSet ELSE last_set

\* history: the category whose snapshot a handler run that took return
\* path h replaced, and the control message handled
swapped(h) ==
  IF h.path # "swap" THEN {}
  ELSE IF h.handler = "port" THEN TEAM_PORT_CHANGE ELSE TEAM_OPTION_CHANGE

answer_of(msg, before) ==
  CASE msg.kind \in {"ack", "done"} -> "ok"
    [] msg.kind = "error" -> "error"
    [] OTHER -> before

recv_message ==
  /\ pc = "recv"
  /\ rx.kind # "none"
  /\ rx' = NoMsg
  /\ \/ /\ rx.kind = "valid"
        /\ \E fail_at \in 0..MaxItems :
             /\ fail_at <= Len(rx.ports) + Len(rx.options)
             /\ valid_message(rx, fail_at)
        /\ hres'.path # "null_deref"
        /\ UNCHANGED nl_sock_err
     \/ /\ rx.kind # "valid"
        /\ nl_sock_err' = control_message(rx)
        /\ hres' = NoHres
        /\ UNCHANGED <<port_list, option_list, pending, shown>>
  /\ \E more \in BOOLEAN :
       /\ in_dgram' = receive_goes_on(rx, more)
       /\ IF ~in_dgram' /\ nl_sock_err' <= 0
          THEN request_returns(nl_sock_err')
          ELSE UNCHANGED <<pc, ret, last_set>>
  /\ answered' = answer_of(rx, answered)
  /\ updated' = IF pc' = "idle" THEN {} ELSE updated \cup swapped(hres')
  /\ spin' = FALSE
  /\ UNCHANGED <<ifindex, handlers, sock, valid_cb, req, calls, op, wire, errv, rtnl,
                 drain, harg, reg_rank, after_fail, inited>>

\* create_option returned NULL and list_add wrote through it: the process
\* is killed by the fault
null_deref ==
  /\ pc \in {"recv", "event"}
  /\ rx.kind = "valid"
  /\ IF pc = "recv" THEN valid_cb = "option"
     ELSE rx.cmd = "TEAM_CMD_OPTIONS_GET"
  /\ \E fail_at \in 1..MaxItems :
       option_decode(rx, fail_at).path = "null_deref"
  /\ hres' = Hres("option", "null_deref")
  /\ pc' = "crashed"
  /\ rx' = NoMsg
  /\ UNCHANGED <<ctx, req, in_dgram, calls, ret, op, last_set, shown, wire,
                 errv, rtnl, drain, hist>>

\* nl_recvmsgs_default fails without running a callback; send_and_recv
\* ignores its return value and calls it again
recv_fails ==
  /\ pc = "recv"
  /\ rx.kind = "none"
  /\ ~in_dgram
  /\ hres' = Hres("none", "recv_failed")
  /\ spin' = ~spin
  /\ UNCHANGED <<ctx, pc, req, rx, in_dgram, calls, ret, op,
                 last_set, shown, wire, errv, rtnl, drain, harg, reg_rank,
                 answered, updated, after_fail, inited>>

(***************************************************************************)
(* check_call_change_handlers as called by get_port_list, get_options and  *)
(* team_process_event, and what the caller does next.                      *)
(***************************************************************************)
\* a variant of call_type_mask_of in which every caller passes
\* TEAM_PORT_CHANGE
call_type_mask_port_only(request) == TEAM_PORT_CHANGE

call_type_mask_of(request) ==
  CASE request = "port" -> TEAM_PORT_CHANGE
    [] request = "option" -> TEAM_OPTION_CHANGE
    [] OTHER -> TEAM_ANY_CHANGE

settle ==
  /\ pc = "settle"
  /\ check_call_change_handlers(call_type_mask_of(req))
  /\ pc' = IF req = "port" THEN "get_options"
           ELSE IF op = "check_events" THEN "select"
           ELSE "idle"
  /\ ret' = 0
  /\ hres' = NoHres
  /\ updated' = {}
  /\ UNCHANGED <<ifindex, port_list, option_list, handlers, nl_sock_err, sock,
                 valid_cb, req, rx, in_dgram, op, last_set, shown, wire, errv, rtnl,
                 drain, harg, reg_rank, answered, after_fail, spin>>
  /\ inited' = IF op = "init" /\ req = "option" THEN ifindex ELSE inited

(***************************************************************************)
(* team_process_event: one nl_recvmsgs_default on the event socket, whose  *)
(* NL_CB_VALID callback is event_handler, then the dispatch.               *)
(***************************************************************************)
team_process_event ==
  /\ enter("process_event")
  /\ pc' = "event"
  /\ req' = "event"
  /\ ret' = 0
  /\ UNCHANGED <<ctx, rx, in_dgram, last_set, shown, wire, errv, rtnl, evq,
                 reg_rank>>

\* the receive takes the next message of the datagram it is handling, or
\* the first message of the datagram at the head of the queue; on an empty
\* queue it blocks until a datagram arrives
kernel_event ==
  /\ pc = "event"
  /\ sock = "ready"
  /\ rx.kind = "none"
  /\ rx' \in ValidMsgs(wire)
  /\ evq' = IF ~in_dgram /\ evq > 0 THEN evq - 1 ELSE evq
  /\ hres' = NoHres
  /\ UNCHANGED <<ctx, pc, req, in_dgram, calls, ret, op, last_set,
                 shown, wire, errv, rtnl, sel, hist>>

\* a variant of event_handler that routes by the list attribute the
\* message carries
event_handler_by_payload(msg, fail_at) ==
  CASE msg.has_ports -> get_port_list_handler(msg, fail_at)
    [] msg.has_options -> get_options_handler(msg, fail_at)
    [] OTHER -> /\ hres' = NoHres
                /\ UNCHANGED <<port_list, option_list, pending, shown>>

event_handler(msg, fail_at) ==
  CASE msg.cmd = "TEAM_CMD_PORT_LIST_GET" -> get_port_list_handler(msg, fail_at)
    [] msg.cmd = "TEAM_CMD_OPTIONS_GET" -> get_options_handler(msg, fail_at)
    [] OTHER -> /\ hres' = NoHres
                /\ UNCHANGED <<port_list, option_list, pending, shown>>

recv_event ==
  /\ pc = "event"
  /\ rx.kind = "valid"
  /\ rx' = NoMsg
  /\ \E fail_at \in 0..MaxItems :
       /\ fail_at <= Len(rx.ports) + Len(rx.options)
       /\ event_handler(rx, fail_at)
  /\ hres'.path # "null_deref"
  /\ \E more \in BOOLEAN :
       /\ in_dgram' = more
       /\ pc' = IF more THEN "event" ELSE "settle"
  /\ updated' = updated \cup swapped(hres')
  /\ UNCHANGED <<ifindex, handlers, nl_sock_err, sock, valid_cb, req, calls,
                 ret, op, last_set, wire, errv, rtnl, drain, harg, reg_rank,
                 answered, after_fail, inited, spin>>

\* the receive on the event socket fails (or the socket is not
\* connected); the datagram at the head of the queue is lost or stays
recv_event_fails ==
  /\ pc = "event"
  /\ rx.kind = "none"
  /\ ~in_dgram
  /\ hres' = Hres("none", "recv_failed")
  /\ pc' = "settle"
  /\ evq' \in {evq, IF evq > 0 THEN evq - 1 ELSE evq}
  /\ UNCHANGED <<ctx, req, rx, in_dgram, calls, ret, op, last_set,
                 shown, wire, errv, rtnl, sel, hist>>

(***************************************************************************)
(* team_check_events: select with a zero timeout on the event socket, and  *)
(* team_process_event while it reports the socket readable.  The file      *)
(* descriptor of a socket that is not connected is -1, for which FD_SET is *)
(* undefined; the call is modelled on a context team_init has set up.      *)
(***************************************************************************)
\* a variant of select that may report the socket readable at any time
select_always_ready(q) == {"EINTR", "failed", "ready"}

\* what select may report for a queue of q datagrams
select(q) ==
  {"EINTR", "failed"} \cup (IF q > 0 THEN {"ready"} ELSE {"empty"})

team_check_events ==
  /\ enter("check_events")
  /\ sock = "ready"
  /\ pc' = "select"
  /\ req' = "none"
  /\ ret' = 0
  /\ UNCHANGED <<ctx, rx, in_dgram, last_set, shown, wire, errv, rtnl, evq,
                 reg_rank>>

\* err == -1 && errno == EINTR: continue
select_interrupted ==
  /\ pc = "select"
  /\ "EINTR" \in select(evq)
  /\ sel' = "EINTR"
  /\ UNCHANGED <<ctx, call, wire, errv, rtnl, evq, hist>>

\* team_process_event if the socket is readable, break otherwise
select_returns ==
  /\ pc = "select"
  /\ \E outcome \in select(evq) \ {"EINTR"} :
       /\ sel' = outcome
       /\ pc' = IF outcome = "ready" THEN "event" ELSE "idle"
       /\ req' = IF outcome = "ready" THEN "event" ELSE req
  /\ UNCHANGED <<ctx, rx, in_dgram, calls, ret, op, hres, last_set, shown,
                 wire, errv, rtnl, evq, hist>>

(***************************************************************************)
(* team_destroy and team_port_add: route netlink requests on               *)
(* th->nl_cli.sock, the socket team_alloc connected.                       *)
(***************************************************************************)
\* results of rtnl_link_delete and rtnl_link_enslave_ifindex
RtnlResults == {0} \cup LibnlErrors

team_destroy ==
  /\ enter("destroy")
  /\ \/ /\ ifindex = 0
        /\ ret' = -ENODEV
     \/ /\ ifindex # 0
        /\ \/ ret' = -ENOMEM
           \/ \E err \in RtnlResults : ret' = -nl2syserr(err)
  /\ req' = "none"
  /\ UNCHANGED <<ctx, pc, rx, in_dgram, last_set, shown, wire, errv, rtnl, evq,
                 reg_rank>>

team_port_add ==
  /\ enter("port_add")
  /\ \E err \in RtnlResults : ret' = -nl2syserr(err)
  /\ req' = "none"
  /\ UNCHANGED <<ctx, pc, rx, in_dgram, last_set, shown, wire, errv, rtnl, evq,
                 reg_rank>>

(***************************************************************************)
(* team_free: the records of both lists are freed, then the sockets and    *)
(* the context itself; no call can be made on it afterwards.               *)
(***************************************************************************)
team_free ==
  /\ enter("free")
  /\ port_list' = flush_port_list(port_list)
  /\ option_list' = flush_option_list(option_list)
  /\ sock' = "closed"
  /\ pc' = "freed"
  /\ req' = "none"
  /\ ret' = 0
  /\ UNCHANGED <<ifindex, pending, handlers, nl_sock_err, valid_cb, rx,
                 in_dgram, last_set, shown, wire, errv, rtnl, evq, reg_rank>>

(***************************************************************************)
(* team_create and team_recreate: do_create, which works on the route      *)
(* netlink socket and the link cache of th->nl_cli and on nothing else of  *)
(* the context.  The kernel's links are named; "NULL" is the team_name of  *)
(* a caller that leaves the choice of the name to the kernel.              *)
(***************************************************************************)
Names == {"team0", "team1"}
NoName == "NULL"

\* whether team_ifname2ifindex returns non-zero: it returns 0 when the
\* refill of the link cache fails and when the cache has no such name
team_ifname2ifindex(links, ifname) ==
  {FALSE} \cup (IF ifname \in links THEN {TRUE} ELSE {})

\* rtnl_link_delete of the link named name: the results it may have and the
\* links the kernel has after each
rtnl_link_delete(links, name) ==
  (IF name \in links THEN {[err |-> 0, links |-> links \ {name}]}
   ELSE {[err |-> -NLE_OBJ_NOTFOUND, links |-> links]})
  \cup {[err |-> -NLE_NOMEM, links |-> links]}

\* rtnl_link_add with NLM_F_CREATE | NLM_F_EXCL of a team link named name
rtnl_link_add(links, name) ==
  (IF name = NoName
     THEN {[err |-> 0, links |-> links \cup {n}] : n \in Names \ links}
   ELSE IF name \in links THEN {[err |-> -NLE_EXIST, links |-> links]}
   ELSE {[err |-> 0, links |-> links \cup {name}]})
  \cup {[err |-> -NLE_NOMEM, links |-> links]}

do_create(team_name, recreate) ==
  /\ enter(IF recreate THEN "recreate" ELSE "create")
  /\ cr_name' = team_name
  /\ \/ \* rtnl_link_alloc fails
        /\ ret' = -ENOMEM
        /\ cr_log' = <<>>
        /\ UNCHANGED devs
     \/ \E found \in (IF team_name # NoName /\ recreate
                       THEN team_ifname2ifindex(devs, team_name)
                       ELSE {FALSE}) :
        \E d \in (IF found THEN rtnl_link_delete(devs, team_name)
                  ELSE {[err |-> 0, links |-> devs]}) :
          LET deleted == IF found THEN <<<<"rtnl_link_delete", d.err>>>>
                         ELSE <<>>
          IN IF d.err # 0
             THEN /\ ret' = -nl2syserr(d.err)
                  /\ devs' = d.links
                  /\ cr_log' = deleted
             ELSE \/ \* rtnl_link_set_type fails
                     /\ ret' = -nl2syserr(-NLE_NOMEM)
                     /\ devs' = d.links
                     /\ cr_log' = deleted \o
                                    <<<<"rtnl_link_set_type", -NLE_NOMEM>>>>
                  \/ \E a \in rtnl_link_add(d.links, team_name) :
                       /\ ret' = -nl2syserr(a.err)
                       /\ devs' = a.links
                       /\ cr_log' = deleted \o <<<<"rtnl_link_add", a.err>>>>
  /\ req' = "none"
  /\ UNCHANGED <<ctx, pc, rx, in_dgram, last_set, shown, wire, errv, evq,
                 reg_rank>>

team_create(team_name) == do_create(team_name, FALSE)

team_recreate(team_name) == do_create(team_name, TRUE)

Next ==
  \/ \E h \in Handlers : team_change_handler_register(h)
  \/ \E h \in Handlers : team_change_handler_unregister(h)
  \/ \E i \in DevIndices \cup {0} : team_init(i)
  \/ get_options
  \/ \E r \in SetRequests : set_option_value(r)
  \/ kernel_reply
  \/ recv_message
  \/ null_deref
  \/ recv_fails
  \/ settle
  \/ team_process_event
  \/ kernel_event
  \/ recv_event
  \/ recv_event_fails
  \/ team_destroy
  \/ team_port_add

Spec == Init /\ [][Next]_vars

\* the life of a context up to and including its team_free
NextFree == Next \/ team_free

SpecFree == Init /\ [][NextFree]_vars


(***************************************************************************)
(* team_init with a handler of both categories registered: the calls that  *)
(* lead to and make up the initialisation, a kernel that sends messages of *)
(* both commands.                                                          *)
(***************************************************************************)
InitFlowHandlers == {"hPO", "hO"}

InitFlow == Init /\ wire = "mixed"

NextInitFlow ==
  \/ \E h \in InitFlowHandlers : team_change_handler_register(h)
  \/ \E h \in InitFlowHandlers : team_change_handler_unregister(h)
  \/ \E i \in DevIndices \cup {0} : team_init(i)
  \/ get_options
  \/ kernel_reply
  \/ recv_message
  \/ recv_fails
  \/ settle

SpecInitFlow == InitFlow /\ [][NextInitFlow]_vars

\* the same calls with the process never stopping while it can take a step
SpecInitFlowFair == SpecInitFlow /\ WF_vars(NextInitFlow)

(***************************************************************************)
(* team_check_events on a context team_init has set up, with up to         *)
(* MaxQueued datagrams queued on the event socket and none arriving.  The  *)
(* process runs on; an interruption of select does not recur for ever, a   *)
(* datagram that is queued is received in the end, and a datagram has a    *)
(* last message.                                                           *)
(***************************************************************************)
InitDrain ==
  /\ ifindex = 1
  /\ port_list = <<>>
  /\ option_list = <<>>
  /\ pending = {}
  /\ handlers = <<"hP", "hO">>
  /\ nl_sock_err = 0
  /\ sock = "ready"
  /\ valid_cb = "option"
  /\ pc = "idle"
  /\ req = "option"
  /\ rx = NoMsg
  /\ in_dgram = FALSE
  /\ calls = <<>>
  /\ ret = 0
  /\ op = "init"
  /\ hres = NoHres
  /\ last_set = NoSet
  /\ shown = NoShown
  /\ wire = "mixed"
  /\ nl_error = 0
  /\ sys_err = 0
  /\ evq \in 0..MaxQueued
  /\ sel = "none"
  /\ harg = "none"
  /\ reg_rank = [h \in AllHandlers |->
                   CASE h = "hP" -> 1 [] h = "hO" -> 2 [] OTHER -> 0]
  /\ answered = "ok"
  /\ updated = {}
  /\ after_fail = FALSE
  /\ spin = FALSE
  /\ inited = ifindex
  /\ devs = {}
  /\ cr_name = "NULL"
  /\ cr_log = <<>>

NextDrain ==
  \/ team_check_events
  \/ select_interrupted
  \/ select_returns
  \/ kernel_event
  \/ recv_event
  \/ recv_event_fails
  \/ null_deref
  \/ settle

SpecDrain ==
  /\ InitDrain
  /\ [][NextDrain]_vars
  /\ WF_vars(select_returns)
  /\ SF_vars(kernel_event)
  /\ SF_vars(recv_event /\ pc' = "settle")
  /\ WF_vars(settle)

(***************************************************************************)
(* team_create and team_recreate examined on their own, on a context       *)
(* returned by team_alloc, whatever links the kernel has.                  *)
(***************************************************************************)
InitCreate ==
  /\ ifindex = 0
  /\ port_list = <<>>
  /\ option_list = <<>>
  /\ pending = {}
  /\ handlers = <<>>
  /\ nl_sock_err = 0
  /\ sock = "closed"
  /\ valid_cb = "none"
  /\ pc = "idle"
  /\ req = "none"
  /\ rx = NoMsg
  /\ in_dgram = FALSE
  /\ calls = <<>>
  /\ ret = 0
  /\ op = "none"
  /\ hres = NoHres
  /\ last_set = NoSet
  /\ shown = NoShown
  /\ wire = "mixed"
  /\ nl_error = 0
  /\ sys_err = 0
  /\ evq = 0
  /\ sel = "none"
  /\ harg = "none"
  /\ reg_rank = [h \in AllHandlers |-> 0]
  /\ answered = "none"
  /\ updated = {}
  /\ after_fail = FALSE
  /\ spin = FALSE
  /\ inited = 0
  /\ devs \in SUBSET Names
  /\ cr_name = "NULL"
  /\ cr_log = <<>>

NextCreate ==
  \/ \E n \in Names \cup {NoName} : team_create(n)
  \/ \E n \in Names \cup {NoName} : team_recreate(n)

SpecCreate == InitCreate /\ [][NextCreate]_vars

(***************************************************************************)
(* The two refresh requests of team_init from the moment the handler has   *)
(* installed a first payload of the reply: the port request after the      *)
(* ports 11 and 12 were installed, the option request after option a was.  *)
(***************************************************************************)
MultiHandlers == <<"hP", "hO", "hPO">>

InitMulti ==
  /\ ifindex = 1
  /\ req \in {"port", "option"}
  /\ port_list = port_loop(<<PortItemA, PortItemB>>, 1, <<>>, 0).tmp_list
  /\ option_list = IF req = "port" THEN <<>>
                   ELSE option_loop(<<OptItemA42>>, 1, <<>>, 0).tmp_list
  /\ pending = IF req = "port" THEN TEAM_PORT_CHANGE ELSE TEAM_OPTION_CHANGE
  /\ handlers = MultiHandlers
  /\ nl_sock_err = 1
  /\ sock = "ready"
  /\ valid_cb = req
  /\ pc = "recv"
  /\ rx = NoMsg
  /\ in_dgram = FALSE
  /\ calls = IF req = "port" THEN <<>>
             ELSE handler_calls(MultiHandlers, TEAM_PORT_CHANGE)
  /\ ret = 0
  /\ op = "init"
  /\ hres = [Hres(req, "swap") EXCEPT !.same = FALSE]
  /\ last_set = NoSet
  /\ shown = [set |-> TRUE, items |-> <<PortItemA, PortItemB>>]
  /\ wire = "mixed"
  /\ nl_error = 0
  /\ sys_err = 0
  /\ evq = 0
  /\ sel = "none"
  /\ harg = "none"
  /\ reg_rank = [h \in AllHandlers |->
                   CASE h = "hP" -> 1 [] h = "hO" -> 2 [] h = "hPO" -> 3
                     [] OTHER -> 0]
  /\ answered = "none"
  /\ updated = pending
  /\ after_fail = FALSE
  /\ spin = FALSE
  /\ inited = 0
  /\ devs = {}
  /\ cr_name = "NULL"
  /\ cr_log = <<>>

NextMulti ==
  \/ kernel_reply
  \/ recv_message
  \/ null_deref
  \/ recv_fails
  \/ settle
  \/ get_options

SpecMulti == InitMulti /\ [][NextMulti]_vars

(***************************************************************************)
(* check_call_change_handlers examined on its own: any list of registered  *)
(* handlers, any pending mask, each of the three callers.                  *)
(***************************************************************************)
Injective(list) ==
  \A i, j \in 1..Len(list) : list[i] = list[j] => i = j

InitDispatch ==
  /\ ifindex = 1
  /\ port_list = <<>>
  /\ option_list = <<>>
  /\ pending \in SUBSET TEAM_ANY_CHANGE
  /\ handlers \in {l \in SeqsUpTo(AllHandlers, MaxRegistered) : Injective(l)}
  /\ nl_sock_err = 0
  /\ sock = "ready"
  /\ req \in {"port", "option", "event"}
  /\ valid_cb = IF req = "port" THEN "port" ELSE "option"
  /\ pc = "settle"
  /\ rx = NoMsg
  /\ in_dgram = FALSE
  /\ calls = <<>>
  /\ ret = 0
  /\ op = IF req = "event" THEN "process_event" ELSE "init"
  /\ hres = NoHres
  /\ last_set = NoSet
  /\ shown = NoShown
  /\ wire = "mixed"
  /\ nl_error = 0
  /\ sys_err = 0
  /\ evq = 0
  /\ sel = "none"
  /\ harg = "none"
  /\ reg_rank = [h \in AllHandlers |->
                   IF \E i \in 1..Len(handlers) : handlers[i] = h
                   THEN CHOOSE i \in 1..Len(handlers) : handlers[i] = h
                   ELSE 0]
  /\ answered = IF req = "event" THEN "none" ELSE "ok"
  /\ updated = pending
  /\ after_fail = FALSE
  /\ spin = FALSE
  /\ inited = 0
  /\ devs = {}
  /\ cr_name = "NULL"
  /\ cr_log = <<>>

NextDispatch == settle

SpecDispatch == InitDispatch /\ [][NextDispatch]_vars

(***************************************************************************)
(* nl2syserr examined on its own.                                          *)
(***************************************************************************)
NlErrInputs == (-MaxNlErr..MaxNlErr) \cup {IntMin, -IntMax, IntMax}

nl2syserr_call(nl_err) ==
  /\ nl_error' = nl_err
  /\ sys_err' = nl2syserr(nl_err)
  /\ UNCHANGED <<ctx, call, wire, drain, hist, rtnl>>

NextErr == \E e \in NlErrInputs : nl2syserr_call(e)

SpecErr == Init /\ [][NextErr]_vars


(***************************************************************************)
(*                           The properties                                *)
(***************************************************************************)

\* a step in which a NL_CB_VALID callback handles the message in rx
HandlerStep == pc \in {"recv", "event"} /\ rx.kind = "valid"

\* the invocations a step adds to calls that are of handler h
InvocationsOf(h) ==
  {i \in (Len(calls) + 1)..Len(calls') : calls'[i][1] = h}

Registered(h) == \E i \in 1..Len(handlers) : handlers[i] = h

(***************************************************************************)
(* C1.  Dispatch: for every pending mask P, settle mask S and registered   *)
(* handler with interest mask M, a settle call invokes the handler exactly *)
(* once with argument M & P & S when that is non-empty, and not at all     *)
(* when it is empty (nor any handler that is not registered).              *)
(***************************************************************************)
C1_Dispatch ==
  [][pc = "settle" =>
       \A h \in AllHandlers :
         LET MPS == (type_mask(h) \cap pending) \cap call_type_mask_of(req) IN
         IF Registered(h) /\ MPS # {}
         THEN /\ Cardinality(InvocationsOf(h)) = 1
              /\ \A i \in InvocationsOf(h) : calls'[i][2] = MPS
         ELSE InvocationsOf(h) = {}]_vars

\* a dispatch of both categories has called the handler interested in both
\* with both bits, the one interested in ports with PORT alone, and has not
\* called the registered handler with the empty mask
C1_Witness ==
  /\ pc = "idle"
  /\ req = "event"
  /\ Registered("hNone")
  /\ calls = <<<<"hPO", TEAM_ANY_CHANGE>>, <<"hP", TEAM_PORT_CHANGE>>>>

(***************************************************************************)
(* C2.  A settle call with mask S leaves the pending mask equal to the     *)
(* pending mask before the call minus S: a category is pending afterwards  *)
(* exactly when it was pending before and is not in S.                     *)
(***************************************************************************)
C2_SettleClearsOnlyS ==
  [][pc = "settle" =>
       \A c \in TEAM_ANY_CHANGE :
         c \in pending' <=> (c \in pending /\ c \notin call_type_mask_of(req))
    ]_vars

\* the dispatch of get_port_list has called a handler for PORT and has left
\* OPTION pending
C2_Witness ==
  /\ pc = "get_options"
  /\ req = "port"
  /\ pending = TEAM_OPTION_CHANGE
  /\ calls = <<<<"hP", TEAM_PORT_CHANGE>>>>

(***************************************************************************)
(* C3.  Change coalescing: with handlers of masks {PORT} and {OPTION}      *)
(* registered, when both categories are pending at the dispatch of         *)
(* team_process_event, the dispatch invokes each of the two exactly once,  *)
(* the PORT handler with PORT alone and the OPTION handler with OPTION     *)
(* alone.                                                                  *)
(***************************************************************************)
C3_Coalescing ==
  [][(/\ pc = "settle"
      /\ req = "event"
      /\ pending = TEAM_ANY_CHANGE
      /\ Registered("hP")
      /\ Registered("hO"))
     => /\ Cardinality(InvocationsOf("hP")) = 1
        /\ \A i \in InvocationsOf("hP") : calls'[i][2] = TEAM_PORT_CHANGE
        /\ Cardinality(InvocationsOf("hO")) = 1
        /\ \A i \in InvocationsOf("hO") : calls'[i][2] = TEAM_OPTION_CHANGE
    ]_vars

\* team_process_event has returned after one receive that replaced both
\* snapshots, and each handler was called once with its own category
C3_Witness ==
  /\ pc = "idle"
  /\ op = "process_event"
  /\ port_list # <<>>
  /\ option_list # <<>>
  /\ calls = <<<<"hO", TEAM_OPTION_CHANGE>>, <<"hP", TEAM_PORT_CHANGE>>>>

(***************************************************************************)
(* C4.  Atomic replace: the port (option) collection changes only in a     *)
(* step that handles a payload for this device whose items are all well    *)
(* formed, and then it is the complete snapshot decoded from that payload; *)
(* in every other step (a failed receive, a payload that fails to parse    *)
(* or aborts in the middle of the batch) it stays what it was.             *)
(***************************************************************************)
ForThisDevice(msg) == msg.has_ifindex /\ msg.team_ifindex = ifindex

PortPayloadComplete(msg) ==
  /\ ForThisDevice(msg)
  /\ msg.has_ports
  /\ \A i \in 1..Len(msg.ports) : msg.ports[i].parsed /\ msg.ports[i].has_ifindex

PortSnapshotOf(items) ==
  [i \in 1..Len(items) |->
     [ifindex |-> items[i].ifindex,
      changed |-> items[i].changed,
      linkup |-> items[i].linkup,
      speed |-> IF items[i].has_speed THEN items[i].speed ELSE 0,
      duplex |-> IF items[i].has_duplex THEN items[i].duplex ELSE 0]]

OptPayloadComplete(msg) ==
  /\ ForThisDevice(msg)
  /\ msg.has_options
  /\ \A i \in 1..Len(msg.options) :
       /\ msg.options[i].parsed
       /\ msg.options[i].has_name
       /\ msg.options[i].has_type
       /\ msg.options[i].has_data

Recognised(item) == item.nla_type \in {"NLA_U32", "NLA_STRING"}

\* the items of a payload that make it into the snapshot: those of a
\* recognised type that no earlier item of a recognised type shares the
\* name of
Kept(items) ==
  {i \in 1..Len(items) :
     /\ Recognised(items[i])
     /\ \A j \in 1..(i - 1) :
          items[j].name = items[i].name => ~Recognised(items[j])}

OptSnapshotOf(items) ==
  LET nth(r) == CHOOSE i \in Kept(items) :
                  Cardinality({j \in Kept(items) : j <= i}) = r
  IN [r \in 1..Cardinality(Kept(items)) |->
        [name |-> items[nth(r)].name,
         type |-> IF items[nth(r)].nla_type = "NLA_U32"
                  THEN "TEAM_OPTION_TYPE_U32" ELSE "TEAM_OPTION_TYPE_STRING",
         data |-> items[nth(r)].data,
         changed |-> items[nth(r)].changed]]

C4_AtomicReplace ==
  [][/\ port_list' # port_list =>
          /\ HandlerStep
          /\ PortPayloadComplete(rx)
          /\ port_list' = PortSnapshotOf(rx.ports)
     /\ option_list' # option_list =>
          /\ HandlerStep
          /\ OptPayloadComplete(rx)
          /\ option_list' = OptSnapshotOf(rx.options)
    ]_vars

\* a port payload aborted at an item without ifindex, after an item that was
\* decoded, and the two ports of the snapshot before it are still there
C4_Witness ==
  /\ hres.handler = "port"
  /\ hres.path = "abort_noattr"
  /\ port_list = PortSnapshotOf(<<PortItemA, PortItemB>>)

(***************************************************************************)
(* C5.  Device filtering: a payload, response or event, whose device       *)
(* ifindex is absent or differs from th->ifindex leaves both registries    *)
(* and the pending mask unchanged and is no error: nl_sock_err, which the  *)
(* request returns, is untouched and the process goes on.                  *)
(***************************************************************************)
C5_DeviceFiltering ==
  [][(HandlerStep /\ ~ForThisDevice(rx))
     => /\ port_list' = port_list
        /\ option_list' = option_list
        /\ pending' = pending
        /\ nl_sock_err' = nl_sock_err
        /\ pc' # "crashed"
    ]_vars

\* a port payload of another device was skipped while a snapshot was held
C5_Witness ==
  /\ hres.handler = "port"
  /\ hres.path = "skip_ifindex"
  /\ Len(port_list) = MaxItems

(***************************************************************************)
(* C6.  Option-name uniqueness: the option registry never holds two        *)
(* options of one name.  As stated: when an installed batch has several    *)
(* items of one name, the registry holds exactly one entry of that name,   *)
(* with the type and value of the first such item.  As the code has it:    *)
(* the entry is that of the first such item whose type is u32 or string,   *)
(* and there is none when no item of the name has such a type.             *)
(***************************************************************************)
NamesUnique(list) ==
  \A i, j \in 1..Len(list) : list[i].name = list[j].name => i = j

OptionSwapStep ==
  HandlerStep /\ hres'.handler = "option" /\ hres'.path = "swap"

ItemsNamed(items, n) == {i \in 1..Len(items) : items[i].name = n}

FirstOf(S) == CHOOSE i \in S : \A j \in S : i <= j

EntriesNamed(list, n) == {i \in 1..Len(list) : list[i].name = n}

TypeOfItem(item) ==
  CASE item.nla_type = "NLA_U32" -> "TEAM_OPTION_TYPE_U32"
    [] item.nla_type = "NLA_STRING" -> "TEAM_OPTION_TYPE_STRING"
    [] OTHER -> "none"

\* entry e of the registry carries the type and value of item
Carries(e, item) == e.type = TypeOfItem(item) /\ e.data = item.data

C6_FirstItemWins ==
  [][/\ NamesUnique(option_list')
     /\ OptionSwapStep =>
          \A n \in OptNames :
            Cardinality(ItemsNamed(rx.options, n)) >= 2 =>
              /\ Cardinality(EntriesNamed(option_list', n)) = 1
              /\ \A e \in EntriesNamed(option_list', n) :
                   Carries(option_list'[e],
                           rx.options[FirstOf(ItemsNamed(rx.options, n))])
    ]_vars

C6_FirstRecognisedItemWins ==
  [][/\ NamesUnique(option_list')
     /\ OptionSwapStep =>
          \A n \in OptNames :
            LET rec == {i \in ItemsNamed(rx.options, n) :
                          Recognised(rx.options[i])}
            IN IF rec = {} THEN EntriesNamed(option_list', n) = {}
               ELSE /\ Cardinality(EntriesNamed(option_list', n)) = 1
                    /\ \A e \in EntriesNamed(option_list', n) :
                         Carries(option_list'[e], rx.options[FirstOf(rec)])
    ]_vars

\* a batch with two items named "a" was installed and the registry holds
\* one option "a"
C6_Witness ==
  /\ hres.handler = "option"
  /\ hres.path = "swap"
  /\ hres.dups
  /\ Cardinality(EntriesNamed(option_list, "a")) = 1

(***************************************************************************)
(* C7.  A set-option call, whatever the kernel replies to it, leaves the   *)
(* option snapshot, the port snapshot and the pending mask unchanged and   *)
(* invokes no change handler.                                              *)
(***************************************************************************)
C7_SetLeavesSnapshots ==
  [][(pc = "recv" /\ req = "set")
     => /\ option_list' = option_list
        /\ port_list' = port_list
        /\ pending' = pending
        /\ calls' = calls
    ]_vars

(***************************************************************************)
(* C8.  Option round trip.  As stated: after a set of u32 option n to v    *)
(* that succeeded, a refresh that installs a payload with an item          *)
(* (n, u32, v) makes team_get_option_value_by_name_u32(n) return 0 and v.  *)
(* As the code has it: when that item is the first item named n of a       *)
(* recognised type.  Both: a name the snapshot has no option of is         *)
(* answered -ENOENT.                                                       *)
(***************************************************************************)
\* the last set call succeeded and was a u32 set
SetU32Acked ==
  /\ req # "set"
  /\ last_set.type = "TEAM_OPTION_TYPE_U32"

IsSetItem(item) ==
  /\ item.name = last_set.name
  /\ item.nla_type = "NLA_U32"
  /\ item.data.u32 = last_set.data.u32

NotFoundWhenAbsent(list) ==
  \A n \in OptNames :
    EntriesNamed(list, n) = {} =>
      team_get_option_value_by_name_u32(list, n).ret = -ENOENT

C8_RoundTrip ==
  [][/\ NotFoundWhenAbsent(option_list')
     /\ (/\ OptionSwapStep
         /\ SetU32Acked
         /\ \E i \in 1..Len(rx.options) : IsSetItem(rx.options[i]))
        => team_get_option_value_by_name_u32(option_list', last_set.name)
             = [ret |-> 0, val |-> last_set.data.u32]
    ]_vars

C8_RoundTripFirstItem ==
  [][/\ NotFoundWhenAbsent(option_list')
     /\ (/\ OptionSwapStep
         /\ SetU32Acked
         /\ \E i \in 1..Len(rx.options) :
              /\ IsSetItem(rx.options[i])
              /\ \A j \in 1..(i - 1) :
                   rx.options[j].name = last_set.name
                     => ~Recognised(rx.options[j]))
        => team_get_option_value_by_name_u32(option_list', last_set.name)
             = [ret |-> 0, val |-> last_set.data.u32]
    ]_vars

\* after a set of "a" to 42 that succeeded, an event installed a snapshot
\* and the getter answers 42 for "a" and -ENOENT for "c"
C8_Witness ==
  /\ req = "event"
  /\ last_set.name = "a"
  /\ last_set.type = "TEAM_OPTION_TYPE_U32"
  /\ hres.handler = "option"
  /\ hres.path = "swap"
  /\ team_get_option_value_by_name_u32(option_list, "a")
       = [ret |-> 0, val |-> 42]
  /\ team_get_option_value_by_name_u32(option_list, "c").ret = -ENOENT

(***************************************************************************)
(* C9.  Idempotent refresh: when a port refresh installs a snapshot from   *)
(* the payload the live snapshot was installed from (the kernel's port     *)
(* collection has not changed), the new snapshot has the contents of the   *)
(* old one and a caller iterating over it sees the same ports in the same  *)
(* order.                                                                  *)
(***************************************************************************)
PortSwapStep ==
  HandlerStep /\ hres'.handler = "port" /\ hres'.path = "swap"

C9_IdempotentRefresh ==
  [][(PortSwapStep /\ shown.set /\ rx.ports = shown.items)
     => /\ port_list' = port_list
        /\ ports_from(port_list', 0) = ports_from(port_list, 0)
    ]_vars

\* two refreshes in a row installed the same payload of two ports
C9_Witness ==
  /\ hres.handler = "port"
  /\ hres.path = "swap"
  /\ hres.same
  /\ Len(ports_from(port_list, 0)) = MaxItems

(***************************************************************************)
(* C10.  Error mapping: each of the 16 libnl codes of the table, with      *)
(* either sign, maps to its errno, 0 maps to 0, every other integer maps   *)
(* to EINVAL, and the call changes nothing of the context.                 *)
(***************************************************************************)
ErrnoTable ==
  {<<NLE_EXIST, EEXIST>>, <<NLE_NOADDR, EADDRNOTAVAIL>>,
   <<NLE_OBJ_NOTFOUND, ENOENT>>, <<NLE_INTR, EINTR>>, <<NLE_AGAIN, EAGAIN>>,
   <<NLE_BAD_SOCK, ENOTSOCK>>, <<NLE_NOACCESS, EACCES>>,
   <<NLE_INVAL, EINVAL>>, <<NLE_NOMEM, ENOMEM>>,
   <<NLE_AF_NOSUPPORT, EAFNOSUPPORT>>,
   <<NLE_PROTO_MISMATCH, EPROTONOSUPPORT>>, <<NLE_OPNOTSUPP, EOPNOTSUPP>>,
   <<NLE_PERM, EPERM>>, <<NLE_BUSY, EBUSY>>, <<NLE_RANGE, ERANGE>>,
   <<NLE_NODEV, ENODEV>>}

ExpectedErrno(code) ==
  LET rows == {p \in ErrnoTable : code = p[1] \/ code = -p[1]} IN
  IF code = 0 THEN 0
  ELSE IF rows = {} THEN EINVAL
  ELSE (CHOOSE p \in rows : TRUE)[2]

C10_ErrorMapping ==
  [][/\ sys_err' = ExpectedErrno(nl_error')
     /\ ctx' = ctx
    ]_vars

\* a negative code of the table was mapped
C10_Witness ==
  /\ nl_error = -NLE_NODEV
  /\ sys_err = ENODEV


(***************************************************************************)
(* C11.  Graceful degradation, as stated: when a port batch for this       *)
(* device has an item without ifindex, or an option batch an item without  *)
(* name, type or data, only that item is skipped: the well-formed items    *)
(* before and after it are installed as the new snapshot and the category  *)
(* is marked pending.  (Steps in which an allocation fails are left out.)  *)
(***************************************************************************)
PortItemWellFormed(item) == item.parsed /\ item.has_ifindex

OptItemWellFormed(item) ==
  item.parsed /\ item.has_name /\ item.has_type /\ item.has_data

\* a batch for this device that parses and has an item that lacks a
\* mandatory attribute
PortBatchWithGap(msg) ==
  /\ ForThisDevice(msg)
  /\ msg.has_ports
  /\ \A i \in 1..Len(msg.ports) : msg.ports[i].parsed
  /\ \E i \in 1..Len(msg.ports) : ~msg.ports[i].has_ifindex

OptBatchWithGap(msg) ==
  /\ ForThisDevice(msg)
  /\ msg.has_options
  /\ \A i \in 1..Len(msg.options) : msg.options[i].parsed
  /\ \E i \in 1..Len(msg.options) : ~OptItemWellFormed(msg.options[i])

C11_OnlyItemSkipped ==
  [][/\ (/\ HandlerStep
         /\ hres'.handler = "port"
         /\ hres'.path # "abort_malloc"
         /\ PortBatchWithGap(rx))
        => /\ port_list' =
                PortSnapshotOf(SelectSeq(rx.ports, PortItemWellFormed))
           /\ TEAM_PORT_CHANGE \subseteq pending'
     /\ (/\ HandlerStep
         /\ hres'.handler = "option"
         /\ hres'.path # "null_deref"
         /\ OptBatchWithGap(rx))
        => /\ option_list' =
                OptSnapshotOf(SelectSeq(rx.options, OptItemWellFormed))
           /\ TEAM_OPTION_CHANGE \subseteq pending'
    ]_vars

(***************************************************************************)
(* C12.  Handler registrations are unique: registering a handler that is   *)
(* registered returns -EEXIST and leaves the handler list unchanged;       *)
(* unregistering one that is not registered changes nothing; no handler is *)
(* ever twice in the list; and a dispatch invokes only handlers that were  *)
(* registered and not unregistered since.                                  *)
(***************************************************************************)
C12_UniqueRegistrations ==
  [][/\ (pc = "idle" /\ op' = "register" /\ Registered(harg'))
        => (ret' = -EEXIST /\ handlers' = handlers)
     /\ (pc = "idle" /\ op' = "unregister" /\ ~Registered(harg'))
        => handlers' = handlers
     /\ Injective(handlers')
     /\ pc = "settle"
        => \A i \in (Len(calls) + 1)..Len(calls') :
             reg_rank[calls'[i][1]] > 0
    ]_vars

\* a second registration of a handler was rejected with two handlers
\* registered
C12_Witness ==
  /\ op = "register"
  /\ ret = -EEXIST
  /\ Registered(harg)
  /\ Len(handlers) = 2

(***************************************************************************)
(* C13.  Within one dispatch the handlers that fire are invoked in the     *)
(* order in which they were registered: of two handlers invoked, the one   *)
(* whose registration is the earlier one is invoked first, whatever        *)
(* registrations and unregistrations came before.                          *)
(***************************************************************************)
C13_RegistrationOrder ==
  [][pc = "settle" =>
       \A i, j \in (Len(calls) + 1)..Len(calls') :
         i < j => reg_rank[calls'[i][1]] < reg_rank[calls'[j][1]]
    ]_vars

\* one dispatch has invoked the handler for options, registered first, and
\* then the handler for ports, registered after it
C13_Witness ==
  /\ pc = "idle"
  /\ op = "process_event"
  /\ reg_rank["hO"] = 1
  /\ reg_rank["hP"] = 2
  /\ calls = <<<<"hO", TEAM_OPTION_CHANGE>>, <<"hP", TEAM_PORT_CHANGE>>>>

(***************************************************************************)
(* C14.  Initialization flow, as stated: when team_init has returned 0     *)
(* after fetching the port list and then the option list, a handler of     *)
(* both categories that was registered before the call has been invoked    *)
(* exactly once during it, with both bits, and the pending mask is empty.  *)
(***************************************************************************)
InvokedIn(list, h) == {i \in 1..Len(list) : list[i][1] = h}

\* team_init has returned 0 and both of its requests installed a snapshot
InitFetchedBoth ==
  /\ pc = "idle"
  /\ op = "init"
  /\ ret = 0
  /\ shown.set
  /\ option_list # <<>>

C14_DispatcherFiresOnce ==
  (InitFetchedBoth /\ Registered("hPO"))
    => /\ Cardinality(InvokedIn(calls, "hPO")) = 1
       /\ \A i \in InvokedIn(calls, "hPO") : calls[i][2] = TEAM_ANY_CHANGE
       /\ pending = {}

(***************************************************************************)
(* C15.  As stated: when team_init fails before the session is set up (a   *)
(* connect, the family or group resolution or the membership fails), the   *)
(* context is left without a bound device index, and every later call     *)
(* that needs the session or the device (team_destroy, a set of an option, *)
(* team_port_add) on a context whose session was never set up returns an   *)
(* error.                                                                  *)
(***************************************************************************)
C15_FailedInitLeavesUninitialized ==
  /\ (pc = "idle" /\ op = "init" /\ ret < 0 /\ sock # "ready")
       => ifindex = 0
  /\ (pc = "idle" /\ op \in {"destroy", "set", "port_add"} /\ sock # "ready")
       => ret < 0

(***************************************************************************)
(* C16.  A request returns 0 only after an acknowledgement or an end of    *)
(* response was received for it; when the kernel's answer is a failure     *)
(* reply the request returns the negative errno of the reply; a request    *)
(* that fails before or at the send returns a negative errno; and a        *)
(* refresh that returns an error makes no dispatch.                        *)
(***************************************************************************)
\* the loop of send_and_recv ends in this step and the caller goes on
RequestReturns == pc = "recv" /\ pc' \in {"idle", "settle"}

\* the step returns success to the caller of the request
ReturnsSuccess == pc' = "settle" \/ (pc' = "idle" /\ ret' = 0)

\* a request is made in this step and fails before its receive loop
SendFails ==
  /\ \/ pc = "idle" /\ op' \in {"init", "set"}
     \/ pc = "get_options"
  /\ pc' = "idle"

PosixErrnos == {p[2] : p \in ErrnoTable} \cup {ENOBUFS}

C16_ReturnCodes ==
  [][/\ (RequestReturns /\ ReturnsSuccess) => answered' = "ok"
     /\ (RequestReturns /\ answered' = "error")
          => (pc' = "idle" /\ ret' \in KernelErrors /\ ret' < 0)
     /\ (RequestReturns /\ rx.kind = "error") => ret' = rx.error
     /\ SendFails => (ret' < 0 /\ (-ret') \in PosixErrnos)
     /\ (RequestReturns /\ pc' = "idle" /\ ret' # 0) => calls' = calls
     /\ SendFails => calls' = (IF pc = "idle" THEN <<>> ELSE calls)
    ]_vars

\* a set was answered with a failure reply and returned its errno
C16_Witness ==
  /\ pc = "idle"
  /\ op = "set"
  /\ answered = "error"
  /\ ret = -EPERM

(***************************************************************************)
(* C17.  Request termination, as stated: a request that is in its receive  *)
(* loop with no message of the reply at hand eventually gets one or        *)
(* returns; in particular it returns when every receive fails.             *)
(***************************************************************************)
C17_RequestTerminates ==
  (pc = "recv" /\ rx.kind = "none") ~> (pc # "recv" \/ rx.kind # "none")

(***************************************************************************)
(* C18.  team_process_event makes one receive on the event socket, which   *)
(* applies the notifications of the datagram to the registries, and then   *)
(* settles every category: each registered handler interested in a         *)
(* category the receive has updated is invoked exactly once, the pending   *)
(* mask is empty when the call returns, and when the receive has updated   *)
(* nothing no handler is invoked unless a category was pending before.     *)
(***************************************************************************)
C18_ProcessOneEvent ==
  [][/\ (pc = "event" /\ rx.kind = "valid" /\ ~in_dgram' /\ pc' # "crashed")
          => pc' = "settle"
     /\ (pc = "event" /\ rx.kind = "none" /\ pc' # "event") => pc' = "settle"
     /\ (pc = "settle" /\ req = "event")
          => /\ \A h \in AllHandlers :
                  (Registered(h) /\ type_mask(h) \cap updated # {})
                    => Cardinality(InvocationsOf(h)) = 1
             /\ pending' = {}
             /\ pc' = "idle"
             /\ (updated = {} /\ pending = {}) => calls' = calls
    ]_vars

\* team_process_event has returned after a receive that updated the ports:
\* the handler for ports was invoked once, the one for options was not
C18_Witness ==
  /\ pc = "idle"
  /\ op = "process_event"
  /\ Registered("hP")
  /\ Registered("hO")
  /\ pending = {}
  /\ calls = <<<<"hP", TEAM_PORT_CHANGE>>>>

(***************************************************************************)
(* C19.  team_check_events terminates when finitely many events are        *)
(* queued.  It calls team_process_event, once for each report, while the   *)
(* select with zero timeout reports the event socket readable, and so      *)
(* never starts the blocking receive on an empty queue; it returns only    *)
(* when select does not report data (with the queue empty, unless select   *)
(* failed); and an interrupted select is tried again: it neither ends the  *)
(* call nor changes what the library holds.                                *)
(***************************************************************************)
InDrain == op = "check_events"

C20_UsableAfterFailure ==
  [][after_fail =>
       /\ (/\ HandlerStep
           /\ hres'.handler = "port"
           /\ hres'.path # "abort_malloc"
           /\ PortPayloadComplete(rx))
          => /\ port_list' = PortSnapshotOf(rx.ports)
             /\ TEAM_PORT_CHANGE \subseteq pending'
       /\ (/\ HandlerStep
           /\ hres'.handler = "option"
           /\ hres'.path # "null_deref"
           /\ OptPayloadComplete(rx))
          => /\ option_list' = OptSnapshotOf(rx.options)
             /\ TEAM_OPTION_CHANGE \subseteq pending'
       /\ RequestReturns => answered' # "none"
       /\ (RequestReturns /\ req \in {"port", "option"} /\ answered' = "ok")
          => pc' = "settle"
       /\ pc = "settle"
          => \A h \in AllHandlers :
               (Registered(h) /\ type_mask(h) \cap updated # {})
                 => Cardinality(InvocationsOf(h)) = 1
    ]_vars

\* the call before team_init returned an error; the port refresh of
\* team_init has installed the two ports the kernel sent and its dispatch
\* has invoked the handler for ports once
C20_Witness ==
  /\ after_fail
  /\ op = "init"
  /\ pc = "get_options"
  /\ port_list = PortSnapshotOf(<<PortItemA, PortItemB>>)
  /\ calls = <<<<"hP", TEAM_PORT_CHANGE>>>>

(***************************************************************************)
(* C21.  Create versus recreate.  team_create of a name the kernel has     *)
(* fails, with -EEXIST unless memory ran out, and the link stays;          *)
(* team_recreate of a name the kernel has deletes the link first and then  *)
(* adds it; when the delete fails nothing else is attempted, the link      *)
(* stays and the error of the delete is returned; when a step after a      *)
(* successful delete fails the link is absent and that error is returned.  *)
(***************************************************************************)
CreateReturns == op' \in {"create", "recreate"} /\ pc = "idle" /\ pc' = "idle"

RanOutOfMemory ==
  cr_log' = <<>> \/ cr_log'[Len(cr_log')][2] = -NLE_NOMEM

DeleteFailed ==
  /\ cr_log' # <<>>
  /\ cr_log'[1][1] = "rtnl_link_delete"
  /\ cr_log'[1][2] # 0

DeleteSucceeded ==
  /\ cr_log' # <<>>
  /\ cr_log'[1] = <<"rtnl_link_delete", 0>>

C21_CreateRecreate ==
  [][CreateReturns =>
       /\ (op' = "create" /\ cr_name' \in devs)
          => /\ ret' < 0
             /\ devs' = devs
             /\ ~RanOutOfMemory => ret' = -EEXIST
       /\ (op' = "recreate" /\ cr_name' \in devs /\ cr_log' # <<>>)
          => /\ cr_log'[1][1] = "rtnl_link_delete"
             /\ cr_log'[1][2] = 0 =>
                  /\ Len(cr_log') = 2
                  /\ cr_log'[2][1] \in {"rtnl_link_set_type", "rtnl_link_add"}
       /\ DeleteFailed
          => /\ Len(cr_log') = 1
             /\ devs' = devs
             /\ ret' = -nl2syserr(cr_log'[1][2])
       /\ (DeleteSucceeded /\ cr_log'[2][2] # 0)
          => /\ cr_name' \notin devs'
             /\ ret' = -nl2syserr(cr_log'[2][2])
    ]_vars

(***************************************************************************)
(* C22.  An option item whose type tag is neither NLA_U32 nor NLA_STRING   *)
(* is skipped on its own.  When the option handler has gone through a      *)
(* payload for the bound device whose items all parse and carry name, type *)
(* and data: every item with a recognised type tag has an entry of its     *)
(* name in the registry, every entry of the registry has the name of such  *)
(* an item, the name of an item with another type tag has an entry only if *)
(* an item with a recognised tag carries that name too, and OPTION_CHANGE  *)
(* is pending.                                                             *)
(***************************************************************************)
OptionHandlerRan ==
  /\ HandlerStep
  /\ hres'.handler = "option"
  /\ hres'.path # "null_deref"

RecognisedNames(items) ==
  {items[i].name : i \in {j \in 1..Len(items) : Recognised(items[j])}}

C22_UnknownTypeSkipped ==
  [][(/\ OptionHandlerRan
      /\ OptPayloadComplete(rx)
      /\ \E i \in 1..Len(rx.options) : ~Recognised(rx.options[i]))
     => /\ {option_list'[e].name : e \in 1..Len(option_list')}
             = RecognisedNames(rx.options)
        /\ \A i \in 1..Len(rx.options) :
             ~Recognised(rx.options[i]) =>
               (EntriesNamed(option_list', rx.options[i].name) # {}
                  <=> rx.options[i].name \in RecognisedNames(rx.options))
        /\ TEAM_OPTION_CHANGE \subseteq pending'
    ]_vars

\* a payload with an item of an unknown type tag and option b has been
\* handled: the registry holds b alone and OPTION_CHANGE is pending
C22_Witness ==
  /\ hres.handler = "option"
  /\ hres.unknown
  /\ option_list = OptSnapshotOf(<<OptItemB>>)
  /\ TEAM_OPTION_CHANGE \subseteq pending

(***************************************************************************)
(* C23.  A category bit enters the pending mask exactly when the snapshot  *)
(* of that category was replaced.  PORT_CHANGE is added only in a step in  *)
(* which a handler installed the snapshot of a complete port payload, and  *)
(* that step leaves the option registry alone; conversely for              *)
(* OPTION_CHANGE.  A step that replaces a snapshot has the bit of that     *)
(* category pending afterwards and adds no other bit.  A payload that is   *)
(* filtered, has no list attribute or aborts during decoding leaves the    *)
(* mask as it was.                                                         *)
(***************************************************************************)
NoSwapPaths ==
  {"skip_ifindex", "skip_nolist", "abort_parse", "abort_noattr",
   "abort_malloc"}

C23_PendingIffSwapped ==
  [][/\ (TEAM_PORT_CHANGE \cap (pending' \ pending) # {})
        => /\ HandlerStep
           /\ PortPayloadComplete(rx)
           /\ port_list' = PortSnapshotOf(rx.ports)
           /\ option_list' = option_list
     /\ (TEAM_OPTION_CHANGE \cap (pending' \ pending) # {})
        => /\ HandlerStep
           /\ OptPayloadComplete(rx)
           /\ option_list' = OptSnapshotOf(rx.options)
           /\ port_list' = port_list
     /\ (HandlerStep /\ hres'.path = "swap")
        => pending' = pending \cup (IF hres'.handler = "port"
                                    THEN TEAM_PORT_CHANGE
                                    ELSE TEAM_OPTION_CHANGE)
     /\ port_list' # port_list => pending' = pending \cup TEAM_PORT_CHANGE
     /\ option_list' # option_list
        => pending' = pending \cup TEAM_OPTION_CHANGE
     /\ (HandlerStep /\ (~ForThisDevice(rx) \/ hres'.path \in NoSwapPaths))
        => pending' = pending
    ]_vars

\* the port snapshot has been replaced while the option registry held an
\* option and nothing was pending: PORT_CHANGE alone is pending
C23_Witness ==
  /\ hres.handler = "port"
  /\ hres.path = "swap"
  /\ pending = TEAM_PORT_CHANGE
  /\ port_list = PortSnapshotOf(<<PortItemA, PortItemB>>)
  /\ option_list # <<>>

(***************************************************************************)
(* C24.  No leak, no dangling.  After any run of a refresh handler,        *)
(* completed or aborted in the middle of the batch, every record the run   *)
(* allocated is in the registry of the context or has been freed; a swap   *)
(* leaves in the registry the records of the new payload and none of the   *)
(* snapshot before; after team_free both registries are empty.             *)
(***************************************************************************)
C24_NoLeak ==
  /\ [](hres.lost = 0)
  /\ [](pc = "freed" => (port_list = <<>> /\ option_list = <<>>))
  /\ [][/\ (HandlerStep /\ hres'.path = "swap" /\ hres'.handler = "port")
           => port_list' = PortSnapshotOf(rx.ports)
        /\ (HandlerStep /\ hres'.path = "swap" /\ hres'.handler = "option")
           => option_list' = OptSnapshotOf(rx.options)
       ]_vars

(***************************************************************************)
(* C25.  The interface index of the context is assigned once: from the     *)
(* return of a team_init that succeeded on, no step of any later call      *)
(* changes th->ifindex; and team_init with index 0 returns -ENOENT and     *)
(* leaves the context as it was.                                           *)
(***************************************************************************)
C25_IfindexAssignedOnce ==
  [][/\ inited # 0 => ifindex' = ifindex
     /\ team_init(0) => (ret' = -ENOENT /\ UNCHANGED ctx)
    ]_vars

(***************************************************************************)
(* C26.  Event routing frame.  The handling of an event message whose      *)
(* command is TEAM_CMD_PORT_LIST_GET leaves the option registry as it was  *)
(* and changes the pending mask by adding PORT_CHANGE at most; one whose   *)
(* command is TEAM_CMD_OPTIONS_GET leaves the port registry as it was and  *)
(* adds OPTION_CHANGE at most; one with any other command changes neither  *)
(* registry nor the pending mask.                                          *)
(***************************************************************************)
EventStep == pc = "event" /\ rx.kind = "valid"

C26_EventRouting ==
  [][EventStep =>
       CASE rx.cmd = "TEAM_CMD_PORT_LIST_GET" ->
              /\ option_list' = option_list
              /\ pending \subseteq pending'
              /\ pending' \subseteq pending \cup TEAM_PORT_CHANGE
         [] rx.cmd = "TEAM_CMD_OPTIONS_GET" ->
              /\ port_list' = port_list
              /\ pending \subseteq pending'
              /\ pending' \subseteq pending \cup TEAM_OPTION_CHANGE
         [] OTHER ->
              /\ port_list' = port_list
              /\ option_list' = option_list
              /\ pending' = pending
    ]_vars

\* the last message of an event datagram had another command and the
\* receive is over: no handler ran on it, both registries hold what they
\* held and nothing is pending
C26_Witness ==
  /\ op = "process_event"
  /\ pc = "settle"
  /\ hres = NoHres
  /\ port_list # <<>>
  /\ option_list # <<>>
  /\ pending = {}

(***************************************************************************)
(* C27.  When the reply to one refresh request holds several accepted      *)
(* payloads, each of them wholly replaces the registry: the handler run on *)
(* an accepted payload leaves in the registry the items of that payload    *)
(* and nothing else, no other step of the request changes a registry, so   *)
(* that at the return of the request the registry holds the items of the   *)
(* last accepted payload only; and the dispatch of the request invokes     *)
(* each handler interested in the category once.                           *)
(***************************************************************************)
RefreshCategory ==
  IF req = "port" THEN TEAM_PORT_CHANGE ELSE TEAM_OPTION_CHANGE

C27_LastPayloadWins ==
  [][/\ (HandlerStep /\ hres'.path = "swap" /\ hres'.handler = "port")
        => /\ port_list' = PortSnapshotOf(rx.ports)
           /\ shown'.items = rx.ports
     /\ (HandlerStep /\ hres'.path = "swap" /\ hres'.handler = "option")
        => option_list' = OptSnapshotOf(rx.options)
     /\ ~(HandlerStep /\ hres'.path = "swap")
        => (port_list' = port_list /\ option_list' = option_list)
     /\ (RequestReturns /\ req = "port" /\ pc' = "settle")
        => port_list' = PortSnapshotOf(shown'.items)
     /\ (pc = "settle" /\ req \in {"port", "option"}
           /\ RefreshCategory \subseteq updated)
        => \A h \in AllHandlers :
             IF Registered(h) /\ type_mask(h) \cap RefreshCategory # {}
             THEN Cardinality(InvocationsOf(h)) = 1
             ELSE InvocationsOf(h) = {}
    ]_vars

\* the port request whose reply began with the payload [11, 12] went on
\* with the payload [12] and has returned: the registry holds port 12
\* alone, and the dispatch has invoked the two handlers interested in ports
\* once each
C27_Witness ==
  /\ op = "init"
  /\ pc = "get_options"
  /\ port_list = PortSnapshotOf(<<PortItemB>>)
  /\ calls = <<<<"hP", TEAM_PORT_CHANGE>>, <<"hPO", TEAM_PORT_CHANGE>>>>

(***************************************************************************)
(* C28.  An allocation failure while a record is built during a refresh is *)
(* handled safely for both registries: the handler stops decoding and      *)
(* returns, no NULL record is linked into a list (the process does not     *)
(* fault), and both registries and the pending mask are as they were       *)
(* before the payload.                                                     *)
(***************************************************************************)
AllocationFailed ==
  HandlerStep /\ hres'.path \in {"abort_malloc", "null_deref"}

C28_AllocationFailureSafe ==
  [][AllocationFailed =>
       /\ pc' # "crashed"
       /\ port_list' = port_list
       /\ option_list' = option_list
       /\ pending' = pending
    ]_vars
=============================================================================
